---------------------------- MODULE Spec2Model ----------------------------
(***************************************************************************)
(* A model of the corgi protocol layer: the chunk and envelope wire        *)
(* codecs (protocol/codec.rs), the reassembly parser (protocol/parser.rs), *)
(* the function registry (container.rs) and the UDP service loop           *)
(* (server.rs).                                                            *)
(*                                                                         *)
(* Buffers are sequences of bytes (0..255).  A u64 is kept as its eight    *)
(* base-256 digits, most significant first, because its value does not fit *)
(* the integers of the model checker; u16, u32 and usize values are        *)
(* naturals.  The target is a 64-bit one: usize arithmetic on lengths      *)
(* never wraps.                                                            *)
(***************************************************************************)
EXTENDS Integers, Sequences, FiniteSets, TLC

VARIABLES
    ch_pc,      \* chunk codec harness: "chunk", "raw", "encoded", "decoded"
    ch_in,      \* the PackageChunk handed to encode (NoValue for a raw buffer)
    ch_wire,    \* the bytes handed to decode
    ch_out,     \* the result of PackageChunkCodec::decode
    env_pc,     \* envelope codec harness: "env", "raw", "encoded", "decoded", "reencoded"
    env_in,     \* the Envelope handed to encode (NoValue for a raw buffer)
    env_enc,    \* the result of EnvelopeCodec::encode on env_in
    env_wire,   \* the bytes handed to decode
    env_out,    \* the result of EnvelopeCodec::decode
    env_re,     \* the result of EnvelopeCodec::encode on the decoded envelope
    chunks,     \* Parser.chunks: HashMap<CallId, Vec<PackageChunk>>
    p_data,     \* the datagram of the last Parser::apply
    p_sig,      \* what Parser::feed signalled inside the last apply
    p_built,    \* what Parser::build_package returned inside the last apply
    p_res,      \* what the last Parser::apply returned
    script,     \* reassembly harness: the datagrams of one call still to be fed
    fedlog,     \* reassembly harness: the chunks fed so far, with feed's signal
    functions,  \* Container.functions: HashMap<&str, &RpcFunction>
    reglog,     \* every descriptor handed to Container::register, in call order
    found,      \* the last Container::find: name, result, registrations before it
    srv,        \* RpcServer: "new", "bound", "running", "returned", "panicked"
    recv,       \* the outcome of the last recv_from: "none", "data", "error"
    srv_ret,    \* what create_udp or start returned, once it has
    rpc_out,    \* what the loop of start did with the last reassembled call
    h_pc,       \* rpc_fn handler harness: "idle", "done"
    h_fn,       \* the function whose generated handler was called
    h_bytes,    \* the bytes handed to the handler
    h_build,    \* whether the build checks integer overflow
    h_out,      \* what the handler returned
    h_invoked   \* the argument tuples the function itself was invoked with

vars == <<ch_pc, ch_in, ch_wire, ch_out, env_pc, env_in, env_enc, env_wire, env_out,
          env_re, chunks, p_data, p_sig, p_built, p_res, script, fedlog,
          functions, reglog, found, srv, recv, srv_ret, rpc_out,
          h_pc, h_fn, h_bytes, h_build, h_out, h_invoked>>

chunkVars == <<ch_pc, ch_in, ch_wire, ch_out>>
envVars == <<env_pc, env_in, env_enc, env_wire, env_out, env_re>>
parserVars == <<chunks, p_data, p_sig, p_built, p_res>>
callVars == <<script, fedlog>>
containerVars == <<functions, reglog, found>>
serverVars == <<srv, recv, srv_ret, rpc_out>>
handlerVars == <<h_pc, h_fn, h_bytes, h_build, h_out, h_invoked>>

-----------------------------------------------------------------------------
(* Results and options *)

NoValue == [kind |-> "None"]
Some(v) == [kind |-> "Some", val |-> v]
Ok(v) == [kind |-> "Ok", val |-> v]
Err(e) == [kind |-> "Err", err |-> e]
Panic == [kind |-> "Panic"]

-----------------------------------------------------------------------------
(* Bounds of the model *)

MaxPayloadLen == 2     \* longest payload of a chunk handed to encode
MaxIndex == 2          \* largest chunk index of the inputs
MaxTotal == 3          \* largest declared total of the inputs
MaxArgs == 2           \* most arguments of an envelope handed to encode
MaxRegs == 3           \* most Container::register calls of a run

-----------------------------------------------------------------------------
(* Program constants *)

CHUNK_HEADER_SIZE == 16
MAX_ARGUMENTS_COUNT == 16
MAX_ARGUMENT_SIZE == 16777216
MAX_FUNCTION_NAME_SIZE == 65535

-----------------------------------------------------------------------------
(* Fixed-width integers on the wire *)

Reverse(s) == [i \in 1..Len(s) |-> s[Len(s) + 1 - i]]

\* BufMut::put_u16: big-endian
put_u16(n) == <<(n \div 256) % 256, n % 256>>

\* BufMut::put_u32: big-endian
put_u32(n) == <<(n \div 16777216) % 256, (n \div 65536) % 256,
                (n \div 256) % 256, n % 256>>

\* BufMut::put_u64 of a u64 kept as its digits: big-endian, the digits as they are
put_u64(d) == d

\* `len as u64` of a length below 2^32, as digits
u64_of(n) == <<0, 0, 0, 0>> \o put_u32(n)

\* u16::from_le_bytes
u16_from_le_bytes(b) == b[1] + 256 * b[2]

\* u32::from_le_bytes, for a value below 2^31
u32_from_le_bytes(b) == b[1] + 256 * b[2] + 65536 * b[3] + 16777216 * b[4]

\* u64::from_le_bytes, as digits: the bytes read last-first
u64_from_le_bytes(b) == Reverse(b)

\* a little-endian field of 4 or 8 bytes whose value is 2^31 or more: larger
\* than every length and every limit of the program
Huge(b) == \E i \in 4..Len(b) : IF i = 4 THEN b[i] >= 128 ELSE b[i] # 0

\* `u64::from_le_bytes(..) as usize` of a field that is not Huge
usize_from_le_bytes(b) == u32_from_le_bytes(SubSeq(b, 1, 4))

-----------------------------------------------------------------------------
(* protocol/types.rs *)

ChunkHeader(call_id, index, total, len) ==
    [call_id |-> call_id, index |-> index, total |-> total, len |-> len]

PackageChunk(header, payload) == [header |-> header, payload |-> payload]

Envelope(fn_name, parameters) == [fn_name |-> fn_name, parameters |-> parameters]

RpcCall(call_id, envelope) == [call_id |-> call_id, envelope |-> envelope]

\* digits a < digits b as numbers (most significant digit first)
RECURSIVE DigitsLess(_, _)
DigitsLess(a, b) ==
    IF a = <<>> THEN FALSE
    ELSE IF Head(a) # Head(b) THEN Head(a) < Head(b)
    ELSE DigitsLess(Tail(a), Tail(b))

\* impl Ord for ChunkHeader: (call_id, index) compared as a pair
ChunkHeader_less(a, b) ==
    \/ DigitsLess(a.call_id, b.call_id)
    \/ a.call_id = b.call_id /\ a.index < b.index

-----------------------------------------------------------------------------
(* PackageChunkCodec *)

PackageChunkCodec_encode(value) ==
    LET header == value.header
    IN  Ok(put_u64(header.call_id) \o put_u16(header.index)
           \o put_u16(header.total) \o put_u32(header.len) \o value.payload)

PackageChunkCodec_decode_noLenCheck(bytes) ==
    IF Len(bytes) < CHUNK_HEADER_SIZE
    THEN Err("ChunkHeaderSizeConstraintViolation")
    ELSE IF Huge(SubSeq(bytes, 13, 16)) THEN Panic
    ELSE
      LET len == u32_from_le_bytes(SubSeq(bytes, 13, 16))
          payload_end == CHUNK_HEADER_SIZE + len
      IN  IF payload_end + len > Len(bytes) THEN Panic
          ELSE Ok(PackageChunk(
                    ChunkHeader(u64_from_le_bytes(SubSeq(bytes, 1, 8)),
                                u16_from_le_bytes(SubSeq(bytes, 9, 10)),
                                u16_from_le_bytes(SubSeq(bytes, 11, 12)), len),
                    SubSeq(bytes, CHUNK_HEADER_SIZE + 1, payload_end + len)))

PackageChunkCodec_decode(bytes) ==
    IF Len(bytes) < CHUNK_HEADER_SIZE
    THEN Err("ChunkHeaderSizeConstraintViolation")
    ELSE IF Huge(SubSeq(bytes, 13, 16))
    THEN Err("ChunkHeaderSizeConstraintViolation")
    ELSE
      LET len == u32_from_le_bytes(SubSeq(bytes, 13, 16))
      IN  IF Len(bytes) < CHUNK_HEADER_SIZE + len
          THEN Err("ChunkHeaderSizeConstraintViolation")
          ELSE
            LET call_id == u64_from_le_bytes(SubSeq(bytes, 1, 8))
                index == u16_from_le_bytes(SubSeq(bytes, 9, 10))
                total == u16_from_le_bytes(SubSeq(bytes, 11, 12))
                header == ChunkHeader(call_id, index, total, len)
                payload_start == CHUNK_HEADER_SIZE
                payload_end == payload_start + len
            IN  \* &bytes[payload_start..payload_end + len]: the slice panics
                \* when its end lies past the buffer
                IF payload_end + len > Len(bytes) THEN Panic
                ELSE Ok(PackageChunk(header,
                          SubSeq(bytes, payload_start + 1, payload_end + len)))

-----------------------------------------------------------------------------
(* EnvelopeCodec *)

\* the `for arg in args { put_u64(arg.len()); extend_from_slice(arg) }` loop
RECURSIVE PutArgs(_)
PutArgs(args) ==
    IF args = <<>> THEN <<>>
    ELSE put_u64(u64_of(Len(Head(args)))) \o Head(args) \o PutArgs(Tail(args))

EnvelopeCodec_encode_noCountCheck(value) ==
    LET fn_name == value.fn_name
        args == value.parameters
    IN  IF Len(fn_name) > MAX_FUNCTION_NAME_SIZE
        THEN Err("MaxFunctionNameConstraintViolation")
        ELSE IF \E i \in 1..Len(args) : Len(args[i]) > MAX_ARGUMENT_SIZE
        THEN Err("MaxArgumentSizeConstraintViolation")
        ELSE Ok(put_u16(Len(fn_name)) \o fn_name \o put_u16(Len(args))
                \o PutArgs(args))

EnvelopeCodec_encode(value) ==
    LET fn_name == value.fn_name
        args == value.parameters
    IN  IF Len(fn_name) > MAX_FUNCTION_NAME_SIZE
        THEN Err("MaxFunctionNameConstraintViolation")
        ELSE IF Len(args) > MAX_ARGUMENTS_COUNT
        THEN Err("MaxArgumentsConstraintViolation")
        ELSE IF \E i \in 1..Len(args) : Len(args[i]) > MAX_ARGUMENT_SIZE
        THEN Err("MaxArgumentSizeConstraintViolation")
        ELSE Ok(put_u16(Len(fn_name)) \o fn_name \o put_u16(Len(args))
                \o PutArgs(args))

RECURSIVE DecodeArgs_noTrailingCheck(_, _, _, _)
DecodeArgs_noTrailingCheck(bytes, cursor, left, parameters) ==
    IF left = 0 THEN Ok(parameters)
    ELSE IF Len(bytes) < cursor + 8 THEN Err("Decode")
    ELSE
      LET raw == SubSeq(bytes, cursor + 1, cursor + 8)
          cursor1 == cursor + 8
      IN  IF Huge(raw) \/ usize_from_le_bytes(raw) > MAX_ARGUMENT_SIZE
          THEN Err("MaxArgumentSizeConstraintViolation")
          ELSE IF Len(bytes) < cursor1 + usize_from_le_bytes(raw) THEN Err("Decode")
          ELSE DecodeArgs_noTrailingCheck(bytes, cursor1 + usize_from_le_bytes(raw),
                 left - 1,
                 Append(parameters,
                        SubSeq(bytes, cursor1 + 1, cursor1 + usize_from_le_bytes(raw))))

RECURSIVE DecodeArgs_lengthFirst(_, _, _, _)
DecodeArgs_lengthFirst(bytes, cursor, left, parameters) ==
    IF left = 0
    THEN IF cursor # Len(bytes)
         THEN Err("GarbageBytes")
         ELSE Ok(parameters)
    ELSE IF Len(bytes) < cursor + 8 THEN Err("Decode")
    ELSE
      LET raw == SubSeq(bytes, cursor + 1, cursor + 8)
          cursor1 == cursor + 8
      IN  IF Huge(raw) \/ Len(bytes) < cursor1 + usize_from_le_bytes(raw)
          THEN Err("Decode")
          ELSE IF usize_from_le_bytes(raw) > MAX_ARGUMENT_SIZE
          THEN Err("MaxArgumentSizeConstraintViolation")
          ELSE DecodeArgs_lengthFirst(bytes, cursor1 + usize_from_le_bytes(raw),
                 left - 1,
                 Append(parameters,
                        SubSeq(bytes, cursor1 + 1, cursor1 + usize_from_le_bytes(raw))))

RECURSIVE DecodeArgs_sliceUnchecked(_, _, _, _)
DecodeArgs_sliceUnchecked(bytes, cursor, left, parameters) ==
    IF left = 0
    THEN IF cursor # Len(bytes)
         THEN Err("GarbageBytes")
         ELSE Ok(parameters)
    ELSE IF Len(bytes) < cursor + 8 THEN Panic
    ELSE
      LET raw == SubSeq(bytes, cursor + 1, cursor + 8)
          cursor1 == cursor + 8
      IN  IF Huge(raw) THEN Err("MaxArgumentSizeConstraintViolation")
          ELSE
            LET arg_len == usize_from_le_bytes(raw)
            IN  IF arg_len > MAX_ARGUMENT_SIZE
                THEN Err("MaxArgumentSizeConstraintViolation")
                ELSE IF Len(bytes) < cursor1 + arg_len THEN Panic
                ELSE DecodeArgs_sliceUnchecked(bytes, cursor1 + arg_len, left - 1,
                       Append(parameters,
                              SubSeq(bytes, cursor1 + 1, cursor1 + arg_len)))

\* the `for _ in 0..arg_count` loop of decode: `left` arguments still to read
\* from `cursor` (0-based), `parameters` read so far
RECURSIVE DecodeArgs(_, _, _, _)
DecodeArgs(bytes, cursor, left, parameters) ==
    IF left = 0
    THEN IF cursor # Len(bytes)
         THEN Err("GarbageBytes")
         ELSE Ok(parameters)
    ELSE IF Len(bytes) < cursor + 8 THEN Err("Decode")
    ELSE
      LET raw == SubSeq(bytes, cursor + 1, cursor + 8)
          cursor1 == cursor + 8
      IN  IF Huge(raw) THEN Err("MaxArgumentSizeConstraintViolation")
          ELSE
            LET arg_len == usize_from_le_bytes(raw)
            IN  IF arg_len > MAX_ARGUMENT_SIZE
                THEN Err("MaxArgumentSizeConstraintViolation")
                ELSE IF Len(bytes) < cursor1 + arg_len THEN Err("Decode")
                ELSE DecodeArgs(bytes, cursor1 + arg_len, left - 1,
                       Append(parameters,
                              SubSeq(bytes, cursor1 + 1, cursor1 + arg_len)))

EnvelopeCodec_decode(bytes) ==
    IF Len(bytes) < 2 THEN Err("Decode")
    ELSE
      LET fn_len == u16_from_le_bytes(SubSeq(bytes, 1, 2))
      IN  IF fn_len > MAX_FUNCTION_NAME_SIZE
          THEN Err("MaxFunctionNameConstraintViolation")
          ELSE IF Len(bytes) < fn_len + 2 THEN Err("Decode")
          ELSE
            LET fn_name == SubSeq(bytes, 3, 2 + fn_len)
                cursor == 2 + fn_len
            IN  IF Len(bytes) < cursor + 2 THEN Err("Decode")
                ELSE
                  LET arg_count ==
                        u16_from_le_bytes(SubSeq(bytes, cursor + 1, cursor + 2))
                  IN  IF arg_count > MAX_ARGUMENTS_COUNT
                      THEN Err("MaxArgumentsConstraintViolation")
                      ELSE
                        LET r == DecodeArgs(bytes, cursor + 2, arg_count, <<>>)
                        IN  IF r.kind # "Ok" THEN r
                            ELSE Ok(Envelope(fn_name, r.val))

-----------------------------------------------------------------------------
(* Inputs of the codec harnesses *)

\* all sequences over S of length at most n
RECURSIVE SeqsUpTo(_, _)
SeqsUpTo(S, n) ==
    IF n = 0 THEN {<<>>}
    ELSE LET shorter == SeqsUpTo(S, n - 1)
         IN  shorter \cup {Append(q, x) : q \in {r \in shorter : Len(r) = n - 1}, x \in S}

Prefixes(b) == {SubSeq(b, 1, k) : k \in 0..Len(b)}

\* call ids 7 and 9, and one whose digits read differently in the two byte orders
CallIds == {<<0, 0, 0, 0, 0, 0, 0, 7>>, <<0, 0, 0, 0, 0, 0, 0, 9>>,
            <<1, 0, 0, 0, 0, 0, 0, 2>>}

\* payload bytes: 'A', 'B'
PayloadBytes == {65, 66}

\* the chunks handed to encode: payload_len is the length of the payload
ValidChunks ==
    {PackageChunk(ChunkHeader(c, i, t, Len(p)), p) :
        c \in CallIds, i \in 0..MaxIndex, t \in 0..MaxTotal,
        p \in SeqsUpTo(PayloadBytes, MaxPayloadLen)}

\* the bytes after a header of a raw buffer: the first k of 'A' 'B' 'C' ...
Filler(k) == [i \in 1..k |-> 64 + i]

\* the chunk layout of the codec's documentation: every field little-endian
ChunkWireLE(call_id, index, total, len, tail) ==
    Reverse(call_id) \o Reverse(put_u16(index)) \o Reverse(put_u16(total))
    \o Reverse(put_u32(len)) \o tail

\* raw buffers handed to decode: little-endian headers declaring 0 ..
\* MaxPayloadLen + 1 bytes (and 2^16, and 2^32 - 1), followed by 0 ..
\* 2 * MaxPayloadLen + 1 bytes, and every truncation of a header
RawChunkBuffers ==
    LET whole == {ChunkWireLE(c, i, t, n, Filler(k)) :
                     c \in CallIds, i \in {0, MaxIndex}, t \in {1, MaxTotal},
                     n \in (0..(MaxPayloadLen + 1)) \cup {65536},
                     k \in 0..(2 * MaxPayloadLen + 1)}
        huge == {Reverse(c) \o <<0, 0, 1, 0, 255, 255, 255, 255>> \o Filler(k) :
                     c \in CallIds, k \in 0..MaxPayloadLen}
    IN  whole \cup huge \cup {SubSeq(ChunkWireLE(c, 1, 2, 1, <<>>), 1, k) :
                       c \in CallIds, k \in 0..(CHUNK_HEADER_SIZE - 1)}

\* function names: "", "a", "add"
FnNames == {<<>>, <<97>>, <<97, 100, 100>>}

\* argument buffers: empty, one byte, and two 4-byte buffers
ArgBufs == {<<>>, <<1>>, <<10, 0, 0, 0>>, <<20, 0, 0, 0>>}

\* the envelopes handed to encode, all within the size limits
Envelopes == {Envelope(f, a) : f \in FnNames, a \in SeqsUpTo(ArgBufs, MaxArgs)}

\* a name of n bytes, n empty arguments, an argument of n bytes
LongName(n) == [i \in 1..n |-> 97]

ManyArgs(n) == [i \in 1..n |-> <<>>]

BigArg(n) == [i \in 1..n |-> 0]

\* envelopes at the three limits of encode and `over` past them: a name of
\* 65535 + over bytes, 16 + over arguments, an argument of 16 MiB + over
\* bytes, and two limits passed at once
LimitEnvelopes(over) ==
    {Envelope(LongName(MAX_FUNCTION_NAME_SIZE + over), <<>>),
     Envelope(<<97>>, ManyArgs(MAX_ARGUMENTS_COUNT + over)),
     Envelope(<<97>>, <<BigArg(MAX_ARGUMENT_SIZE + over)>>),
     Envelope(LongName(MAX_FUNCTION_NAME_SIZE + over),
              ManyArgs(MAX_ARGUMENTS_COUNT + over)),
     Envelope(<<97>>, ManyArgs(MAX_ARGUMENTS_COUNT)),
     Envelope(LongName(MAX_FUNCTION_NAME_SIZE), <<>>)}

\* the `arg_len:u64 | arg` records of the envelope layout, little-endian
RECURSIVE ArgsWireLE(_)
ArgsWireLE(args) ==
    IF args = <<>> THEN <<>>
    ELSE Reverse(u64_of(Len(Head(args)))) \o Head(args) \o ArgsWireLE(Tail(args))

\* the envelope layout with every length little-endian, as decode reads it
EnvelopeWireLE(e) ==
    Reverse(put_u16(Len(e.fn_name))) \o e.fn_name
    \o Reverse(put_u16(Len(e.parameters))) \o ArgsWireLE(e.parameters)

\* arg_count fields at and past the limit: 16, 17, 256, 65535
CountFields == {<<16, 0>>, <<17, 0>>, <<0, 1>>, <<255, 255>>}

\* arg_len fields at and past the limit: 16 MiB, 16 MiB + 1, 2^32, 2^64 - 1
LenFields ==
    {<<0, 0, 0, 1, 0, 0, 0, 0>>, <<1, 0, 0, 1, 0, 0, 0, 0>>,
     <<0, 0, 0, 0, 1, 0, 0, 0>>, <<255, 255, 255, 255, 255, 255, 255, 255>>}

\* a complete name, an arg_count field of CountFields and 0, 1 or 8 more bytes
CountLimitBuffers ==
    {Reverse(put_u16(Len(f))) \o f \o c \o [i \in 1..k |-> 0] :
        f \in FnNames, c \in CountFields, k \in {0, 1, 8}}

\* a little-endian envelope of at most one argument, to which one more
\* argument is added whose arg_len field is of LenFields, followed by 0 or 2 bytes
LenLimitBuffers ==
    {Reverse(put_u16(Len(e.fn_name))) \o e.fn_name
       \o Reverse(put_u16(Len(e.parameters) + 1)) \o ArgsWireLE(e.parameters)
       \o n \o [i \in 1..k |-> 0] :
        e \in {x \in Envelopes : Len(x.parameters) <= 1}, n \in LenFields,
        k \in {0, 2}}

\* raw buffers handed to decode: little-endian envelopes, each of their
\* truncations, and each followed by one or two more bytes; and the buffers at the
\* limits of arg_count and arg_len
RawEnvelopeBuffers ==
    UNION {Prefixes(EnvelopeWireLE(e))
             \cup {Append(EnvelopeWireLE(e), 0), EnvelopeWireLE(e) \o <<255, 1>>} :
             e \in Envelopes}
    \cup CountLimitBuffers \cup LenLimitBuffers

-----------------------------------------------------------------------------
(* The codec harnesses: encode a value and decode the bytes, or decode a   *)
(* raw buffer (and, for an envelope, encode what came out)                 *)

ChunkIdle ==
    /\ ch_pc = "idle" /\ ch_in = NoValue /\ ch_wire = <<>> /\ ch_out = NoValue

EnvIdle ==
    /\ env_pc = "idle" /\ env_in = NoValue /\ env_enc = NoValue /\ env_wire = <<>>
    /\ env_out = NoValue /\ env_re = NoValue

ParserIdle ==
    /\ chunks = <<>> /\ p_data = <<>> /\ p_sig = NoValue
    /\ p_built = NoValue /\ p_res = NoValue

CallIdle == script = <<>> /\ fedlog = <<>>

ContainerIdle == functions = <<>> /\ reglog = <<>> /\ found = NoValue

ServerIdle ==
    srv = "new" /\ recv = "none" /\ srv_ret = NoValue /\ rpc_out = NoValue

HandlerIdle ==
    /\ h_pc = "idle" /\ h_fn = NoValue /\ h_bytes = <<>> /\ h_build = "none"
    /\ h_out = NoValue /\ h_invoked = <<>>

InitChunk ==
    /\ \/ ch_pc = "chunk" /\ ch_in \in ValidChunks /\ ch_wire = <<>>
       \/ ch_pc = "raw" /\ ch_in = NoValue /\ ch_wire \in RawChunkBuffers
    /\ ch_out = NoValue
    /\ EnvIdle /\ ParserIdle /\ CallIdle /\ ContainerIdle /\ ServerIdle
    /\ HandlerIdle

ChunkEncode ==
    /\ ch_pc = "chunk"
    /\ ch_wire' = PackageChunkCodec_encode(ch_in).val
    /\ ch_pc' = "encoded"
    /\ UNCHANGED <<ch_in, ch_out, envVars, parserVars, callVars, containerVars,
                   serverVars, handlerVars>>

ChunkDecode ==
    /\ ch_pc \in {"encoded", "raw"}
    /\ ch_out' = PackageChunkCodec_decode(ch_wire)
    /\ ch_pc' = "decoded"
    /\ UNCHANGED <<ch_in, ch_wire, envVars, parserVars, callVars, containerVars,
                   serverVars, handlerVars>>

NextChunk == ChunkEncode \/ ChunkDecode

SpecChunk == InitChunk /\ [][NextChunk]_vars

InitEnvelope ==
    /\ \/ /\ env_pc = "env" /\ env_wire = <<>>
          /\ env_in \in Envelopes \cup LimitEnvelopes(1)
       \/ env_pc = "raw" /\ env_in = NoValue /\ env_wire \in RawEnvelopeBuffers
    /\ env_enc = NoValue /\ env_out = NoValue /\ env_re = NoValue
    /\ ChunkIdle /\ ParserIdle /\ CallIdle /\ ContainerIdle /\ ServerIdle
    /\ HandlerIdle

EnvelopeEncode ==
    /\ env_pc = "env"
    /\ LET r == EnvelopeCodec_encode(env_in)
       IN  IF r.kind = "Ok"
           THEN env_enc' = r /\ env_wire' = r.val /\ env_pc' = "encoded"
           ELSE env_enc' = r /\ env_wire' = <<>> /\ env_pc' = "rejected"
    /\ UNCHANGED <<env_in, env_out, env_re, chunkVars, parserVars, callVars,
                   containerVars, serverVars, handlerVars>>

EnvelopeDecode ==
    /\ env_pc \in {"encoded", "raw"}
    /\ env_out' = EnvelopeCodec_decode(env_wire)
    /\ env_pc' = "decoded"
    /\ UNCHANGED <<env_in, env_enc, env_wire, env_re, chunkVars, parserVars, callVars,
                   containerVars, serverVars, handlerVars>>

EnvelopeReencode ==
    /\ env_pc = "decoded" /\ env_in = NoValue /\ env_out.kind = "Ok"
    /\ env_re' = EnvelopeCodec_encode(env_out.val)
    /\ env_pc' = "reencoded"
    /\ UNCHANGED <<env_in, env_enc, env_wire, env_out, chunkVars, parserVars, callVars,
                   containerVars, serverVars, handlerVars>>

NextEnvelope == EnvelopeEncode \/ EnvelopeDecode \/ EnvelopeReencode

SpecEnvelope == InitEnvelope /\ [][NextEnvelope]_vars

-----------------------------------------------------------------------------
(* Parser (protocol/parser.rs), on the value of its map *)

\* slice::sort with impl Ord for PackageChunk: stable, by header (call_id, index)
RECURSIVE InsertChunk(_, _)
InsertChunk(sorted, c) ==
    IF sorted = <<>> THEN <<c>>
    ELSE IF ChunkHeader_less(c.header, Head(sorted).header)
         THEN <<c>> \o sorted
         ELSE <<Head(sorted)>> \o InsertChunk(Tail(sorted), c)

RECURSIVE SortChunks(_)
SortChunks(v) ==
    IF v = <<>> THEN <<>>
    ELSE InsertChunk(SortChunks(SubSeq(v, 1, Len(v) - 1)), v[Len(v)])

\* the fold of build_package: the payloads one after the other
RECURSIVE ConcatPayloads(_)
ConcatPayloads(v) ==
    IF v = <<>> THEN <<>> ELSE Head(v).payload \o ConcatPayloads(Tail(v))

\* HashMap::remove
MapRemove(map, k) == [x \in DOMAIN map \ {k} |-> map[x]]

\* the map after `entry(call_id).or_insert_with(|| vec![chunk])`: the closure
\* runs, and the chunk is stored, only when the map has no entry for call_id
EntryOrInsertWith_noPush(map, call_id, chunk) ==
    IF call_id \in DOMAIN map THEN map
    ELSE [x \in DOMAIN map \cup {call_id} |->
            IF x = call_id THEN <<>> ELSE map[x]]

EntryOrInsertWith(map, call_id, chunk) ==
    IF call_id \in DOMAIN map THEN map
    ELSE [x \in DOMAIN map \cup {call_id} |->
            IF x = call_id THEN <<chunk>> ELSE map[x]]

Parser_feed_evictStale(map, data) ==
    LET decoded == PackageChunkCodec_decode(data)
    IN  IF decoded.kind # "Ok" THEN [chunks |-> map, res |-> decoded]
        ELSE
          LET chunk == decoded.val
              total == chunk.header.total
              call_id == chunk.header.call_id
              map1 == EntryOrInsertWith(map, call_id, chunk)
          IN  IF total = Len(map1[call_id])
              THEN [chunks |-> [map1 EXCEPT ![call_id] = SortChunks(@)],
                    res |-> Ok(Some(call_id))]
              ELSE [chunks |-> IF call_id \in DOMAIN map
                               THEN MapRemove(map1, call_id)
                               ELSE map1,
                    res |-> Ok(NoValue)]

\* Parser::feed: [chunks: the map afterwards, res: Ok(Option<CallId>), Err or Panic]
Parser_feed(map, data) ==
    LET decoded == PackageChunkCodec_decode(data)
    IN  IF decoded.kind # "Ok" THEN [chunks |-> map, res |-> decoded]
        ELSE
          LET chunk == decoded.val
              total == chunk.header.total
              call_id == chunk.header.call_id
              map1 == EntryOrInsertWith(map, call_id, chunk)
          IN  IF total = Len(map1[call_id])
              THEN [chunks |-> [map1 EXCEPT ![call_id] = SortChunks(@)],
                    res |-> Ok(Some(call_id))]
              ELSE [chunks |-> map1, res |-> Ok(NoValue)]

Parser_build_package_keepEntry(map, call_id) ==
    IF call_id \notin DOMAIN map THEN [chunks |-> map, res |-> Panic]
    ELSE [chunks |-> map, res |-> Ok(ConcatPayloads(map[call_id]))]

Parser_build_package_clearAll(map, call_id) ==
    IF call_id \notin DOMAIN map THEN [chunks |-> map, res |-> Panic]
    ELSE [chunks |-> <<>>, res |-> Ok(ConcatPayloads(map[call_id]))]

\* Parser::build_package: `remove(&call_id).unwrap()` panics without an entry
Parser_build_package(map, call_id) ==
    IF call_id \notin DOMAIN map THEN [chunks |-> map, res |-> Panic]
    ELSE [chunks |-> MapRemove(map, call_id),
          res |-> Ok(ConcatPayloads(map[call_id]))]

Parser_apply_buildUnsignalled(map, data) ==
    LET fed == Parser_feed(map, data)
    IN  IF fed.res.kind # "Ok"
        THEN [chunks |-> fed.chunks, sig |-> NoValue, built |-> NoValue,
              res |-> fed.res]
        ELSE
          LET call_id == u64_from_le_bytes(SubSeq(data, 1, 8))
              pkg == Parser_build_package(fed.chunks, call_id)
          IN  IF pkg.res.kind # "Ok"
              THEN [chunks |-> pkg.chunks, sig |-> fed.res.val,
                    built |-> NoValue, res |-> pkg.res]
              ELSE
                LET envelope == EnvelopeCodec_decode(pkg.res.val)
                IN  [chunks |-> pkg.chunks, sig |-> fed.res.val,
                     built |-> Some(pkg.res.val),
                     res |-> IF envelope.kind = "Ok"
                             THEN Ok(Some(RpcCall(call_id, envelope.val)))
                             ELSE envelope]

\* Parser::apply: [chunks, sig: feed's signal, built: build_package's bytes,
\* res: Ok(Option<RpcCall>), Err or Panic]
Parser_apply(map, data) ==
    LET fed == Parser_feed(map, data)
    IN  IF fed.res.kind # "Ok"
        THEN [chunks |-> fed.chunks, sig |-> NoValue, built |-> NoValue,
              res |-> fed.res]
        ELSE IF fed.res.val.kind = "Some"
        THEN
          LET call_id == fed.res.val.val
              pkg == Parser_build_package(fed.chunks, call_id)
          IN  IF pkg.res.kind # "Ok"
              THEN [chunks |-> pkg.chunks, sig |-> fed.res.val,
                    built |-> NoValue, res |-> pkg.res]
              ELSE
                LET envelope == EnvelopeCodec_decode(pkg.res.val)
                IN  [chunks |-> pkg.chunks, sig |-> fed.res.val,
                     built |-> Some(pkg.res.val),
                     res |-> IF envelope.kind = "Ok"
                             THEN Ok(Some(RpcCall(call_id, envelope.val)))
                             ELSE envelope]
        ELSE [chunks |-> fed.chunks, sig |-> NoValue, built |-> NoValue,
              res |-> Ok(NoValue)]

-----------------------------------------------------------------------------
(* The parser under any sequence of datagrams *)

ParserCallIds == {<<0, 0, 0, 0, 0, 0, 0, 7>>, <<0, 0, 0, 0, 0, 0, 0, 9>>}

\* datagrams: for both calls, every index and total with an empty payload; a
\* one-chunk call whose 4 payload bytes are the envelope of "" with no
\* arguments (declared length 2, so that decode's slice fits); a chunk of
\* exactly 16 + payload_len bytes; chunks carrying payload bytes; a truncated
\* datagram
ParserDatagrams ==
    {ChunkWireLE(c, i, t, 0, <<>>) :
        c \in ParserCallIds, i \in 0..MaxIndex, t \in 0..MaxTotal}
    \cup {ChunkWireLE(c, 0, 1, 2, <<0, 0, 0, 0>>) : c \in ParserCallIds}
    \cup {ChunkWireLE(c, i, 2, 1, <<65 + 2 * i, 66 + 2 * i>>) :
             c \in ParserCallIds, i \in 0..1}
    \cup {ChunkWireLE(c, 0, 2, 2, <<65, 66>>) : c \in ParserCallIds}
    \cup {<<1, 2, 3>>}

Init ==
    /\ ParserIdle
    /\ ChunkIdle /\ EnvIdle /\ CallIdle /\ ContainerIdle /\ ServerIdle
    /\ HandlerIdle

\* one call of Parser::apply; a panic unwinds through the owner of the parser
Apply(data) ==
    /\ p_res.kind # "Panic"
    /\ LET r == Parser_apply(chunks, data)
       IN  /\ chunks' = r.chunks
           /\ p_sig' = r.sig
           /\ p_built' = r.built
           /\ p_res' = r.res
    /\ p_data' = data

ParserApply ==
    /\ \E data \in ParserDatagrams : Apply(data)
    /\ UNCHANGED <<chunkVars, envVars, callVars, containerVars, serverVars, handlerVars>>

Next == ParserApply

Spec == Init /\ [][Next]_vars

-----------------------------------------------------------------------------
(* One call fed to a fresh parser: its n chunks, each index once, in any   *)
(* arrival order                                                           *)

\* the datagram of chunk `index` of `total`: shape 0 carries no payload; shape 1
\* declares 1 byte and is followed by 2 (decode's slice takes both); shape 2
\* declares 2 bytes and is followed by exactly those 2
CallDatagram(call_id, index, total, shape) ==
    LET tail == <<65 + 2 * index, 66 + 2 * index>>
    IN  ChunkWireLE(call_id, index, total, shape, IF shape = 0 THEN <<>> ELSE tail)

Shapes == {0, 1, 2}

InitCall ==
    /\ \E call_id \in ParserCallIds, n \in 1..MaxTotal :
         \E order \in Permutations(0..(n - 1)), shape \in [0..(n - 1) -> Shapes] :
            script = [k \in 1..n |->
                        CallDatagram(call_id, order[k - 1], n, shape[order[k - 1]])]
    /\ fedlog = <<>>
    /\ ParserIdle
    /\ ChunkIdle /\ EnvIdle /\ ContainerIdle /\ ServerIdle
    /\ HandlerIdle

\* Parser::apply on the next datagram of the call; fedlog keeps each chunk
\* that decoded, with what feed signalled and what build_package built
FeedNext ==
    /\ script # <<>>
    /\ Apply(Head(script))
    /\ script' = Tail(script)
    /\ LET decoded == PackageChunkCodec_decode(Head(script))
       IN  fedlog' = IF decoded.kind = "Ok"
                     THEN Append(fedlog, [chunk |-> decoded.val, sig |-> p_sig',
                                          built |-> p_built'])
                     ELSE fedlog
    /\ UNCHANGED <<chunkVars, envVars, containerVars, serverVars, handlerVars>>

NextCall == FeedNext

SpecCall == InitCall /\ [][NextCall]_vars

-----------------------------------------------------------------------------
(* Container (container.rs) *)

\* descriptors: a name, and a handler that tells two descriptors of one name apart
RpcFunctions == [name : {"add", "sub"}, handler : {1, 2}]

\* the names asked of find: the registered ones and one never registered
LookupNames == {"add", "sub", "mul"}

Container_register_overwrite(fs, function) ==
    [x \in DOMAIN fs \cup {function.name} |->
        IF x = function.name THEN function ELSE fs[x]]

\* Container::register: `entry(function.name).or_insert(function)`
Container_register(fs, function) ==
    IF function.name \in DOMAIN fs THEN fs
    ELSE [x \in DOMAIN fs \cup {function.name} |->
            IF x = function.name THEN function ELSE fs[x]]

\* Container::find: `get(name).copied()`
Container_find(fs, name) ==
    IF name \in DOMAIN fs THEN Some(fs[name]) ELSE NoValue

InitContainer ==
    /\ ContainerIdle
    /\ ChunkIdle /\ EnvIdle /\ ParserIdle /\ CallIdle /\ ServerIdle
    /\ HandlerIdle

Register ==
    /\ Len(reglog) < MaxRegs
    /\ \E function \in RpcFunctions :
         /\ functions' = Container_register(functions, function)
         /\ reglog' = Append(reglog, function)
    /\ UNCHANGED <<found, chunkVars, envVars, parserVars, callVars, serverVars,
                   handlerVars>>

Find ==
    /\ \E name \in LookupNames :
         found' = [name |-> name, at |-> Len(reglog),
                   res |-> Container_find(functions, name)]
    /\ UNCHANGED <<functions, reglog, chunkVars, envVars, parserVars, callVars,
                   serverVars, handlerVars>>

NextContainer == Register \/ Find

SpecContainer == InitContainer /\ [][NextContainer]_vars

-----------------------------------------------------------------------------
(* RpcServer (server.rs) *)

\* `tracing::trace!("Received RpcCall {rpc_call}")`
Traced(package) == [kind |-> "Traced", val |-> package]

InitServer ==
    /\ srv = "new" /\ recv = "none" /\ srv_ret = NoValue /\ rpc_out = NoValue
    /\ ParserIdle
    /\ ChunkIdle /\ EnvIdle /\ CallIdle /\ ContainerIdle
    /\ HandlerIdle

\* RpcServer::create_udp: UdpSocket::bind succeeds or fails
CreateUdp ==
    /\ srv = "new"
    /\ \/ srv' = "bound" /\ srv_ret' = NoValue
       \/ srv' = "returned" /\ srv_ret' = Err("SocketBinding")
    /\ UNCHANGED <<recv, rpc_out, parserVars, chunkVars, envVars, callVars,
                   containerVars, handlerVars>>

\* RpcServer::start up to its loop: Parser::default(), then local_address()?
Start ==
    /\ srv = "bound"
    /\ \/ srv' = "running" /\ srv_ret' = NoValue
       \/ srv' = "returned" /\ srv_ret' = Err("LocalAddress")
    /\ UNCHANGED <<recv, rpc_out, parserVars, chunkVars, envVars, callVars,
                   containerVars, handlerVars>>

RecvError_propagate ==
    /\ srv = "running"
    /\ recv' = "error"
    /\ srv' = "returned"
    /\ srv_ret' = Err("Receive")
    /\ UNCHANGED <<rpc_out, parserVars, chunkVars, envVars, callVars,
                   containerVars, handlerVars>>

\* one turn of the loop in which recv_from fails: logged, `continue`
RecvError ==
    /\ srv = "running"
    /\ recv' = "error"
    /\ UNCHANGED <<srv, srv_ret, rpc_out, parserVars, chunkVars, envVars, callVars,
                   containerVars, handlerVars>>

\* one turn of the loop in which recv_from yields a datagram:
\* `parser.apply(&buf)?` returns the error from start; a reassembled call is
\* wrapped with the two addresses and traced, and nothing else is done with it
RecvDatagram ==
    /\ srv = "running"
    /\ recv' = "data"
    /\ \E data \in ParserDatagrams : Apply(data)
    /\ srv' = CASE p_res'.kind = "Err" -> "returned"
                [] p_res'.kind = "Panic" -> "panicked"
                [] OTHER -> "running"
    /\ srv_ret' = IF p_res'.kind = "Err" THEN p_res' ELSE srv_ret
    /\ rpc_out' = IF p_res'.kind = "Ok" /\ p_res'.val.kind = "Some"
                  THEN Traced(p_res'.val.val)
                  ELSE rpc_out
    /\ UNCHANGED <<chunkVars, envVars, callVars, containerVars, handlerVars>>

NextServer == CreateUdp \/ Start \/ RecvError \/ RecvDatagram

SpecServer == InitServer /\ [][NextServer]_vars

-----------------------------------------------------------------------------
(* rpc_fn (corgi-macros/src/lib.rs) and the value codec (corgi/src/codec.rs) *)

\* the functions the tests put under #[rpc_fn]: all parameters are i32
RpcFns ==
    {[name |-> "foo_empty_args", arity |-> 0, has_return |-> FALSE],
     [name |-> "foo_one_arg", arity |-> 1, has_return |-> FALSE],
     [name |-> "foo_multiple_args", arity |-> 2, has_return |-> FALSE],
     [name |-> "foo_multiple_args_return_type", arity |-> 2, has_return |-> TRUE]}

\* overflow checks on (a debug build) or off (a release build)
Builds == {"debug", "release"}

\* the four little-endian bytes of n, 0 <= n < 2^31
le_bytes4(n) ==
    <<n % 256, (n \div 256) % 256, (n \div 65536) % 256, n \div 16777216>>

\* the fixed-width encoding of an i32: four bytes, little-endian, two's complement
i32_to_le_bytes(v) ==
    IF v >= 0 THEN le_bytes4(v)
    ELSE [i \in 1..4 |-> 255 - le_bytes4(-(v + 1))[i]]

i32_from_le_bytes(b) ==
    IF b[4] < 128
    THEN b[1] + 256 * b[2] + 65536 * b[3] + 16777216 * b[4]
    ELSE -((255 - b[1]) + 256 * (255 - b[2]) + 65536 * (255 - b[3])
            + 16777216 * (255 - b[4])) - 1

\* a tuple is encoded as its fields in order; () is the empty buffer and the
\* parenthesised single type (i32) is the i32 itself
RECURSIVE TupleToBytes(_)
TupleToBytes(args) ==
    IF args = <<>> THEN <<>>
    ELSE i32_to_le_bytes(Head(args)) \o TupleToBytes(Tail(args))

\* BincodeCodec::encode: wincode::serialize
BincodeCodec_encode(args) == Ok(TupleToBytes(args))

\* BincodeCodec::decode: wincode::deserialize reads the fields from the front
\* of the buffer; a buffer that ends inside a field is Err(Decode)
BincodeCodec_decode(arity, bytes) ==
    IF Len(bytes) < 4 * arity THEN Err("Decode")
    ELSE Ok([k \in 1..arity |-> i32_from_le_bytes(SubSeq(bytes, 4 * k - 3, 4 * k))])

\* `arg1 + arg2` on i32: an overflow panics where overflow checks are on and
\* wraps where they are off
I32Add(a, b, build) ==
    IF a > 0 /\ b > 2147483647 - a
    THEN IF build = "debug" THEN Panic
         ELSE Some((a - 2147483647 - 1) + (b - 2147483647 - 1))
    ELSE IF a < 0 /\ b < (-2147483647 - 1) - a
    THEN IF build = "debug" THEN Panic
         ELSE Some((a + 2147483647 + 1) + (b + 2147483647 + 1))
    ELSE Some(a + b)

\* the body of the function: only foo_multiple_args_return_type computes a value
Invoke(fn, args, build) ==
    IF fn.has_return THEN I32Add(args[1], args[2], build) ELSE Some(<<>>)

rpc_fn_handler_decodeOrDefault(fn, bytes, build) ==
    LET decoded == BincodeCodec_decode(fn.arity, bytes)
        args == IF decoded.kind = "Err" THEN [k \in 1..fn.arity |-> 0]
                ELSE decoded.val
        result == Invoke(fn, args, build)
    IN  IF result.kind = "Panic" THEN [out |-> Panic, invoked |-> <<args>>]
        ELSE IF fn.has_return
        THEN [out |-> BincodeCodec_encode(<<result.val>>), invoked |-> <<args>>]
        ELSE [out |-> Ok(<<>>), invoked |-> <<args>>]

\* the handler closure rpc_fn generates:
\* `let args = codec.decode(bytes)?`, the call, then `codec.encode(&result)`
\* or, without a return type, `Ok(bytes::Bytes::new())`
rpc_fn_handler(fn, bytes, build) ==
    LET decoded == BincodeCodec_decode(fn.arity, bytes)
    IN  IF decoded.kind = "Err" THEN [out |-> decoded, invoked |-> <<>>]
        ELSE LET args == decoded.val
                 result == Invoke(fn, args, build)
             IN  IF result.kind = "Panic" THEN [out |-> Panic, invoked |-> <<args>>]
                 ELSE IF fn.has_return
                 THEN [out |-> BincodeCodec_encode(<<result.val>>),
                       invoked |-> <<args>>]
                 ELSE [out |-> Ok(<<>>), invoked |-> <<args>>]

\* argument values: the test's 10 and 20, zero, a negative one and i32::MAX
I32Values == {-1, 0, 10, 20, 2147483647}

ArgTuples(fn) == [1..fn.arity -> I32Values]

\* the encoding of an argument tuple of the function, or a truncation of it
HandlerInputs(fn) == UNION {Prefixes(TupleToBytes(args)) : args \in ArgTuples(fn)}

InitHandler ==
    /\ HandlerIdle
    /\ ChunkIdle /\ EnvIdle /\ ParserIdle /\ CallIdle /\ ContainerIdle /\ ServerIdle

\* one call of a generated handler
HandlerCall ==
    /\ h_pc = "idle"
    /\ \E fn \in RpcFns, build \in Builds :
         \E bytes \in HandlerInputs(fn) :
            LET r == rpc_fn_handler(fn, bytes, build)
            IN  /\ h_pc' = "done"
                /\ h_fn' = fn
                /\ h_bytes' = bytes
                /\ h_build' = build
                /\ h_out' = r.out
                /\ h_invoked' = r.invoked
    /\ UNCHANGED <<chunkVars, envVars, parserVars, callVars, containerVars,
                   serverVars>>

NextHandler == HandlerCall

SpecHandler == InitHandler /\ [][NextHandler]_vars

-----------------------------------------------------------------------------
(* The claims *)

\* C1: for every PackageChunk whose header payload_len is the length of its
\* payload, decode(encode(chunk)) succeeds and returns a chunk with the same
\* call_id, index, total, payload_len and payload.
C1_ChunkRoundTrip ==
    (ch_pc = "decoded" /\ ch_in # NoValue) => ch_out = Ok(ch_in)

\* C2: for every Envelope within the size limits, decode(encode(envelope))
\* succeeds and returns the same function-name bytes and the same argument
\* buffers in the same order.
C2_EnvelopeRoundTrip ==
    (env_pc = "decoded" /\ env_in # NoValue) => env_out = Ok(env_in)

\* C3: when the n chunks of one call (total = n, each index once) are fed and
\* no other chunk of that call, feed signals nothing for the first n - 1 and
\* signals completion with the call_id on the n-th, whatever the order.
C3_CompletesOnLastChunk ==
    \A k \in 1..Len(fedlog) :
        LET header == fedlog[k].chunk.header
        IN  fedlog[k].sig = IF k = header.total THEN Some(header.call_id)
                            ELSE NoValue

\* the payloads of the fed chunks of indices i, i + 1, .., n - 1, in that order
RECURSIVE PayloadsFrom(_, _)
PayloadsFrom(i, n) ==
    IF i >= n THEN <<>>
    ELSE LET k == CHOOSE j \in 1..Len(fedlog) : fedlog[j].chunk.header.index = i
         IN  fedlog[k].chunk.payload \o PayloadsFrom(i + 1, n)

RECURSIVE SumPayloadLens(_)
SumPayloadLens(k) ==
    IF k = 0 THEN 0 ELSE Len(fedlog[k].chunk.payload) + SumPayloadLens(k - 1)

\* C4: once every chunk of a call has been fed, in any arrival order, the
\* payload built for the call is the concatenation of the chunks' payloads in
\* ascending index order, and its length is the sum of their lengths.
C4_PayloadInIndexOrder ==
    (fedlog # <<>> /\ Len(fedlog) = fedlog[1].chunk.header.total) =>
        LET n == Len(fedlog)
        IN  /\ fedlog[n].built = Some(PayloadsFrom(0, n))
            /\ Len(fedlog[n].built.val) = SumPayloadLens(n)

\* C5: PackageChunkCodec.decode never panics: for every buffer it returns a
\* chunk or an error value.
C5_ChunkDecodeNeverPanics ==
    ch_pc = "decoded" => ch_out.kind \in {"Ok", "Err"}

\* a buffer shorter than the header, or shorter than header + declared length
ChunkTooShort(bytes) ==
    \/ Len(bytes) < CHUNK_HEADER_SIZE
    \/ Huge(SubSeq(bytes, 13, 16))
    \/ Len(bytes) < CHUNK_HEADER_SIZE + u32_from_le_bytes(SubSeq(bytes, 13, 16))


\* C6: decode returns ChunkHeaderSizeConstraintViolation, and no chunk, for
\* every buffer shorter than 16 bytes and for every buffer shorter than 16
\* plus the payload length its header declares.
C6_ShortBufferRejected ==
    (ch_pc = "decoded" /\ ChunkTooShort(ch_wire)) =>
        ch_out = Err("ChunkHeaderSizeConstraintViolation")

\* a decoded buffer that holds a whole header declaring more than follows it
C6_Witness ==
    /\ ch_pc = "decoded"
    /\ Len(ch_wire) > CHUNK_HEADER_SIZE
    /\ ChunkTooShort(ch_wire)
    /\ ch_out.kind = "Err"

\* the first descriptor handed to register under `name` among the first n
\* register calls, if any
FirstRegistered(name, n) ==
    LET at == {i \in 1..n : reglog[i].name = name}
    IN  IF at = {} THEN NoValue
        ELSE Some(reglog[CHOOSE i \in at : \A j \in at : i <= j])

\* C7: after any sequence of register calls, find(name) returns the first
\* descriptor registered under that name, and none for a name never registered.
C7_FirstRegistrationWins ==
    /\ \A name \in LookupNames :
          Container_find(functions, name) = FirstRegistered(name, Len(reglog))
    /\ found # NoValue => found.res = FirstRegistered(found.name, found.at)

\* find answered with the first of two different descriptors of one name
C7_Witness ==
    /\ found # NoValue
    /\ \E i, j \in 1..found.at :
          /\ i < j
          /\ reglog[i].name = found.name /\ reglog[j].name = found.name
          /\ reglog[i] # reglog[j]
          /\ found.res = Some(reglog[i])
    /\ Container_find(functions, "mul") = NoValue

\* the call_id a datagram carries in its first 8 bytes, if it has that many
Carries(data, call_id) ==
    Len(data) >= 8 /\ u64_from_le_bytes(SubSeq(data, 1, 8)) = call_id

\* C8: Parser.apply on a datagram leaves the pending entry of every call_id
\* other than the datagram's unchanged, whatever it returns; and when chunk
\* decoding fails the whole pending map is unchanged.
C8_ApplyFrame ==
    [][ /\ \A c \in DOMAIN chunks \cup DOMAIN chunks' :
             ~Carries(p_data', c) =>
                 /\ c \in DOMAIN chunks /\ c \in DOMAIN chunks'
                 /\ chunks'[c] = chunks[c]
        /\ (p_res'.kind = "Panic"
            \/ p_res' = Err("ChunkHeaderSizeConstraintViolation")) =>
               chunks' = chunks ]_vars

\* apply returned a call while another call_id was pending
C8_Witness ==
    /\ p_res.kind = "Ok" /\ p_res.val.kind = "Some"
    /\ \E c \in DOMAIN chunks : ~Carries(p_data, c)

\* C9: a codec-level violation on one received datagram is a local failure:
\* the service loop keeps running after it.
C9_ServerSurvivesCodecError ==
    (recv = "data" /\ p_res.kind = "Err") => srv = "running"

\* "add" with two 4-byte arguments, every length little-endian
AddWire ==
    EnvelopeWireLE(Envelope(<<97, 100, 100>>, <<<<10, 0, 0, 0>>, <<20, 0, 0, 0>>>>))

\* C10: for every buffer EnvelopeCodec.decode accepts (the wire encoding of
\* "add" with two 4-byte arguments decodes to 2 arguments and name "add"),
\* encode of the decoded envelope reproduces the identical bytes.
C10_ReencodeIdentity ==
    /\ (env_pc \in {"decoded", "reencoded"} /\ env_wire = AddWire) =>
          /\ env_out.kind = "Ok"
          /\ env_out.val.fn_name = <<97, 100, 100>>
          /\ Len(env_out.val.parameters) = 2
    /\ env_pc = "reencoded" => env_re = Ok(env_wire)

\* C11: PackageChunkCodec.encode produces exactly 16 + payload length bytes:
\* call_id at bytes 0..8, index at 8..10, total at 10..12, payload_len at
\* 12..16, every integer little-endian, then the payload bytes verbatim.
C11_ChunkLayoutLittleEndian ==
    (ch_pc = "encoded") =>
        /\ Len(ch_wire) = CHUNK_HEADER_SIZE + Len(ch_in.payload)
        /\ ch_wire = ChunkWireLE(ch_in.header.call_id, ch_in.header.index,
                                 ch_in.header.total, ch_in.header.len,
                                 ch_in.payload)

\* the limits an envelope handed to encode is past, as the errors they yield
LimitsViolated(e) ==
    {x \in {"MaxFunctionNameConstraintViolation", "MaxArgumentsConstraintViolation",
            "MaxArgumentSizeConstraintViolation"} :
        \/ x = "MaxFunctionNameConstraintViolation" /\ Len(e.fn_name) > 65535
        \/ x = "MaxArgumentsConstraintViolation" /\ Len(e.parameters) > 16
        \/ /\ x = "MaxArgumentSizeConstraintViolation"
           /\ \E i \in 1..Len(e.parameters) : Len(e.parameters[i]) > 16 * 1024 * 1024}

HasCountField(b) ==
    /\ Len(b) >= 2
    /\ Len(b) >= 2 + (b[1] + 256 * b[2]) + 2

\* the arg_count field of such a buffer
CountFieldOf(b) ==
    LET at == 2 + (b[1] + 256 * b[2]) IN b[at + 1] + 256 * b[at + 2]

\* an 8-byte little-endian field larger than 16 MiB
OverSixteenMiB(f) ==
    \/ \E i \in 5..8 : f[i] # 0
    \/ f[4] > 1
    \/ f[4] = 1 /\ (f[1] # 0 \/ f[2] # 0 \/ f[3] # 0)

\* reading `left` arguments from offset `at`, an arg_len field larger than
\* 16 MiB is met after complete arguments within the limit
RECURSIVE MeetsOversizeLen(_, _, _)
MeetsOversizeLen(b, at, left) ==
    /\ left > 0
    /\ Len(b) >= at + 8
    /\ LET f == SubSeq(b, at + 1, at + 8)
           n == f[1] + 256 * f[2] + 65536 * f[3] + 16777216 * f[4]
       IN  \/ OverSixteenMiB(f)
           \/ /\ Len(b) >= at + 8 + n
              /\ MeetsOversizeLen(b, at + 8 + n, left - 1)

\* C13: EnvelopeCodec.decode rejects a buffer whose name field is complete and
\* whose arg_count exceeds 16 with MaxArgumentsConstraintViolation, and a
\* buffer in which an arg_len field exceeds 16 MiB with
\* MaxArgumentSizeConstraintViolation, however many bytes follow.
C13_DecodeRevalidatesLimits ==
    (env_pc = "decoded" /\ env_in = NoValue /\ HasCountField(env_wire)) =>
        IF CountFieldOf(env_wire) > 16
        THEN env_out = Err("MaxArgumentsConstraintViolation")
        ELSE MeetsOversizeLen(env_wire, 2 + (env_wire[1] + 256 * env_wire[2]) + 2,
                              CountFieldOf(env_wire)) =>
                env_out = Err("MaxArgumentSizeConstraintViolation")

\* decode rejected an arg_len field of more than 16 MiB that is the end of
\* the buffer and comes after one complete argument
C13_Witness ==
    /\ env_pc = "decoded" /\ env_in = NoValue /\ HasCountField(env_wire)
    /\ CountFieldOf(env_wire) = 2
    /\ Len(env_wire) > 8
    /\ OverSixteenMiB(SubSeq(env_wire, Len(env_wire) - 7, Len(env_wire)))
    /\ env_out = Err("MaxArgumentSizeConstraintViolation")

\* the little-endian encodings of the envelopes of the model
ValidWires == {EnvelopeWireLE(e) : e \in Envelopes}

\* a structurally valid envelope followed by one or more extra bytes
HasTrailingBytes(b) == \E k \in 0..(Len(b) - 1) : SubSeq(b, 1, k) \in ValidWires

\* C14: EnvelopeCodec.decode of a structurally valid envelope followed by one
\* or more extra bytes returns GarbageBytes, never an envelope and never the
\* truncation error; a successful decode consumes exactly the buffer.
C14_TrailingBytesRejected ==
    (env_pc = "decoded" /\ env_in = NoValue) =>
        /\ HasTrailingBytes(env_wire) => env_out = Err("GarbageBytes")
        /\ env_out.kind = "Ok" =>
              Len(EnvelopeWireLE(env_out.val)) = Len(env_wire)

\* decode rejected an envelope with arguments that is followed by two more bytes
C14_Witness ==
    /\ env_pc = "decoded" /\ env_in = NoValue
    /\ \E e \in Envelopes :
          /\ Len(e.parameters) = 2
          /\ env_wire = EnvelopeWireLE(e) \o <<255, 1>>
    /\ env_out = Err("GarbageBytes")

\* C15: in every reachable parser state, all chunks held in the pending
\* collection of one call share that call's call_id and the same total, and
\* their index values are pairwise distinct and lie in [0, total).
C15_PendingWellFormed ==
    \A c \in DOMAIN chunks :
        \A i \in 1..Len(chunks[c]) :
            LET header == chunks[c][i].header
            IN  /\ header.call_id = c
                /\ header.total = chunks[c][1].header.total
                /\ header.index >= 0 /\ header.index < header.total
                /\ \A j \in 1..Len(chunks[c]) :
                      j # i => chunks[c][j].header.index # header.index

\* C18: when PackageChunkCodec.decode succeeds, the payload of the chunk is
\* exactly the payload_len bytes that follow the 16-byte header (bytes
\* 16 .. 16 + payload_len of the input), no more and no fewer.
C18_PayloadIsDeclaredBytes ==
    (ch_pc = "decoded" /\ ch_out.kind = "Ok") =>
        /\ Len(ch_out.val.payload) = ch_out.val.header.len
        /\ ch_out.val.payload =
              SubSeq(ch_wire, 17, 16 + ch_out.val.header.len)

\* the number of chunks the parser holds for call_id
Held(map, call_id) == IF call_id \in DOMAIN map THEN Len(map[call_id]) ELSE 0

\* C19: every successfully decoded chunk fed to the parser grows the pending
\* collection of its call_id by one, duplicates included, so that a call with
\* total = n is signalled complete on the n-th chunk fed for it.
C19_EveryFeedGrowsCollection ==
    [][ (p_res'.kind # "Panic"
         /\ p_res' # Err("ChunkHeaderSizeConstraintViolation")) =>
        LET call_id == u64_from_le_bytes(SubSeq(p_data', 1, 8))
            total == u16_from_le_bytes(SubSeq(p_data', 11, 12))
        IN  IF p_sig'.kind = "Some"
            THEN p_sig'.val = call_id /\ total = Held(chunks, call_id) + 1
            ELSE /\ Held(chunks', call_id) = Held(chunks, call_id) + 1
                 /\ total # Held(chunks', call_id) ]_vars

\* C20: whenever feed signals completion of a call inside Parser.apply, the
\* parser holds no entry for that call once apply returns, both when the
\* envelope decodes and when envelope decoding fails.
C20_CompletedEntryRemoved ==
    p_sig.kind = "Some" => p_sig.val \notin DOMAIN chunks

\* feed signalled completion and envelope decoding failed, with another call pending
C20_Witness ==
    /\ p_sig.kind = "Some"
    /\ p_built.kind = "Some"
    /\ p_res.kind = "Err"
    /\ DOMAIN chunks # {}

\* C16: dispatching a reassembled call whose function name is not registered
\* in the Container ends with an UnknownFunction error for that call, without
\* a panic and without stopping the server.
C16_UnknownFunctionReported ==
    (recv = "data" /\ p_res.kind = "Ok" /\ p_res.val.kind = "Some"
        /\ Container_find(functions, p_res.val.val.envelope.fn_name) = NoValue) =>
        /\ rpc_out = Err("UnknownFunction")
        /\ srv = "running"

\* the sum of a and b is an i32
SumFits(a, b) ==
    /\ ~(a > 0 /\ b > 2147483647 - a)
    /\ ~(a < 0 /\ b < (-2147483647 - 1) - a)

\* C17: the handler rpc_fn generates for f, given the encoding of f's argument
\* tuple, invokes f once on those arguments and returns the encoding of the
\* result ((10, 20) to the adding function gives the encoding of 30); given
\* bytes that are not the encoding of an argument tuple it returns the Decode
\* error without invoking f; when f declares no return type it returns an
\* empty buffer.
C17_HandlerDecodesInvokesEncodes ==
    h_pc = "done" =>
        /\ \A args \in ArgTuples(h_fn) :
              h_bytes = TupleToBytes(args) =>
                 /\ h_invoked = <<args>>
                 /\ ~h_fn.has_return => h_out = Ok(<<>>)
                 /\ (h_fn.has_return /\ SumFits(args[1], args[2])) =>
                       h_out = Ok(i32_to_le_bytes(args[1] + args[2]))
        /\ (h_bytes \notin {TupleToBytes(args) : args \in ArgTuples(h_fn)}) =>
              h_out = Err("Decode") /\ h_invoked = <<>>
        /\ (h_fn.has_return /\ h_bytes = <<10, 0, 0, 0, 20, 0, 0, 0>>) =>
              h_out = Ok(<<30, 0, 0, 0>>)

\* the test's call: the adding function on the encoding of (10, 20)
C17_Witness ==
    /\ h_pc = "done"
    /\ h_fn.name = "foo_multiple_args_return_type"
    /\ h_bytes = TupleToBytes(<<10, 20>>)
    /\ h_invoked = <<<<10, 20>>>>
    /\ h_out = Ok(<<30, 0, 0, 0>>)

\* b is a valid envelope encoding cut short at some byte position
IsTruncation(b) ==
    \E w \in ValidWires : Len(b) < Len(w) /\ SubSeq(w, 1, Len(b)) = b

\* C21: EnvelopeCodec.decode never panics: for every byte buffer it returns an
\* envelope or an error; and for every strict prefix of a valid envelope
\* encoding, the empty buffer included, it returns the Decode error, not the
\* trailing-garbage error.
C21_EnvelopeDecodeTotal ==
    env_pc \in {"decoded", "reencoded"} =>
        /\ env_out.kind \in {"Ok", "Err"}
        /\ IsTruncation(env_wire) =>
              env_out = Err("Decode") /\ env_out # Err("GarbageBytes")

\* decode was given a valid encoding cut short after at least five bytes
C21_Witness ==
    /\ env_pc = "decoded"
    /\ IsTruncation(env_wire)
    /\ Len(env_wire) >= 5
    /\ env_out = Err("Decode")

\* C22: the parser has no eviction: a pending entry of call_id c stays through
\* every later datagram, and it is removed only by an apply on a datagram of c
\* in which feed signals completion of c.
C22_NoEviction ==
    [][ \A c \in DOMAIN chunks :
           c \notin DOMAIN chunks' =>
               Carries(p_data', c) /\ p_sig' = Some(c) ]_vars

\* two calls are pending and the last datagram was a further chunk of one of
\* them, with another index than the chunk held, that did not complete it
C22_Witness ==
    /\ Cardinality(DOMAIN chunks) = 2
    /\ p_res = Ok(NoValue)
    /\ \E c \in DOMAIN chunks :
          /\ Carries(p_data, c)
          /\ chunks[c][1].header.index # u16_from_le_bytes(SubSeq(p_data, 9, 10))

\* C23: a receive error does not terminate RpcServer.start: the loop goes on
\* to the next receive with the parser's pending state unchanged; a bind
\* failure makes create_udp return the SocketBinding error, and then no server
\* exists: nothing is received and nothing is parsed.
C23_RecvErrorContinuesBindFailureFatal ==
    [][ /\ recv' = "error" =>
              /\ srv' = "running"
              /\ srv_ret' = srv_ret
              /\ chunks' = chunks
        /\ srv_ret' = Err("SocketBinding") =>
              /\ srv = "new" /\ srv' = "returned"
              /\ recv' = "none"
              /\ chunks' = <<>> /\ p_res' = NoValue ]_vars

\* a receive failed while a call was pending, and the loop is still running
C23_Witness ==
    /\ recv = "error"
    /\ srv = "running"
    /\ chunks # <<>>

\* the collection of call_id c once the datagram was fed: the one held before,
\* or else the datagram's chunk alone
CollectionFed(c, map, data) ==
    IF c \in DOMAIN map THEN map[c] ELSE <<PackageChunkCodec_decode(data).val>>

\* C24: in Parser.apply, build_package runs once for a completion signal of
\* feed and never without one, always for the call_id just signalled: the
\* entry it removes exists, its unwrap does not panic, and the bytes built are
\* those of that call's collection.
C24_BuildOncePerSignal ==
    [][ /\ p_sig'.kind = "Some" =>
              /\ Carries(p_data', p_sig'.val)
              /\ p_res'.kind # "Panic"
              /\ p_built' =
                    Some(ConcatPayloads(SortChunks(
                            CollectionFed(p_sig'.val, chunks, p_data'))))
              /\ DOMAIN chunks' = DOMAIN chunks \ {p_sig'.val}
        /\ p_sig'.kind # "Some" =>
              /\ p_built' = NoValue
              /\ DOMAIN chunks \subseteq DOMAIN chunks' ]_vars

\* feed signalled a call that was pending before the datagram, and
\* build_package returned its payload bytes
C24_Witness ==
    /\ p_sig.kind = "Some"
    /\ p_built.kind = "Some" /\ p_built.val # <<>>
    /\ p_res.kind \in {"Ok", "Err"}
    /\ Len(p_data) = CHUNK_HEADER_SIZE

=============================================================================
